---- MODULE Spec2Model ----
(***************************************************************************)
(* Maya-Mocap: import of a .trc marker file into a Maya scene              *)
(* (src/maya_trc.py).  The model follows trc_callback: df_from_trc reads   *)
(* the text file with pandas, analyze_data / increment_labels pick the     *)
(* labels and the import counter, set_markers keys one object per marker,  *)
(* set_skeleton builds, places and orients the body_25b joints.            *)
(*                                                                         *)
(* Text is modelled by TLA+ strings (concatenation, slicing and digit      *)
(* removal are computed character by character).  The Maya scene is        *)
(* modelled by the state the script reads back or writes: the list of      *)
(* transforms with their parents, the current position of each node, the   *)
(* animation keys, and the ordered record of the calls made to the host.   *)
(* Coordinates are kept in halves (a sample v is held as 2*v) so that the   *)
(* midpoint of two samples is exact.                                       *)
(***************************************************************************)
EXTENDS Integers, Sequences, FiniteSets, TLC

VARIABLES
    trc_file,       \* the chosen file: a sequence of lines, each a sequence of cells (text)
    markers_box,    \* checkbox 'Display markers'
    skeleton_box,   \* checkbox 'Display skeleton'
    scene,          \* the transforms of the Maya scene, in creation order: [name, parent]
    pos,            \* current absolute position of the joints that were moved (in halves)
    anim,           \* animation keys: <<object, attribute, time>> -> value (in halves)
    calls,          \* the calls made to the host, in order: <<command, object, time>>
    pc,             \* position of trc_callback
    header,         \* local of df_from_trc: the metadata dictionary
    data,           \* local: the DataFrame [columns, rows] without 'Frame#' and 'Time'
    labels,         \* local: the labels suffixed with the counter
    str_cnt,        \* local: the counter, as text
    numFrames,      \* local: number of rows of data
    jointsJ,        \* local of set_skeleton: the joints as listed by cmds.ls(sl=1)
    i,              \* frame index of the loop of set_skeleton
    j,              \* joint index of the loops of set_skeleton (0-based, as in the source)
    importNo        \* how many times the 'Import trc' button was pressed

vars == <<trc_file, markers_box, skeleton_box, scene, pos, anim, calls, pc, header,
          data, labels, str_cnt, numFrames, jointsJ, i, j, importNo>>

-----------------------------------------------------------------------------
(* Bounds of the model *)

MaxFrames == 2
MaxSeed == 1
MaxImports == 3

-----------------------------------------------------------------------------
(* Python text and list operations *)

Range(s) == {s[k] : k \in 1..Len(s)}

Digits == {"0", "1", "2", "3", "4", "5", "6", "7", "8", "9"}

\* s[:-n]
DropLast(s, n) == SubSeq(s, 1, Len(s) - n)

\* re.sub(r'[0-9]', '', s)
RECURSIVE StripDigits(_)
StripDigits(s) ==
    IF Len(s) = 0 THEN ""
    ELSE (IF SubSeq(s, 1, 1) \in Digits THEN "" ELSE SubSeq(s, 1, 1))
         \o StripDigits(SubSeq(s, 2, Len(s)))

DigitValue(c) ==
    CASE c = "0" -> 0 [] c = "1" -> 1 [] c = "2" -> 2 [] c = "3" -> 3 [] c = "4" -> 4
      [] c = "5" -> 5 [] c = "6" -> 6 [] c = "7" -> 7 [] c = "8" -> 8 [] c = "9" -> 9

IsNum(s) == Len(s) > 0 /\ \A k \in 1..Len(s) : SubSeq(s, k, k) \in Digits

\* the number a numeric cell is read as
RECURSIVE ParseNum(_)
ParseNum(s) ==
    IF Len(s) = 0 THEN 0
    ELSE 10 * ParseNum(DropLast(s, 1)) + DigitValue(SubSeq(s, Len(s), Len(s)))

\* seq[start:stop:step] on a list of length n, stop given as a 0-based exclusive index
RECURSIVE SliceFrom(_, _, _, _)
SliceFrom(seq, start, stop, step) ==
    IF start >= stop \/ start >= Len(seq) THEN <<>>
    ELSE <<seq[start + 1]>> \o SliceFrom(seq, start + step, stop, step)

\* position (1-based) of the first occurrence of x in seq, 0 when absent
IndexOf(seq, x) ==
    IF x \in Range(seq) THEN CHOOSE k \in 1..Len(seq) : seq[k] = x /\ \A m \in 1..(k - 1) : seq[m] # x
    ELSE 0

RECURSIVE Flatten(_)
Flatten(ss) == IF ss = <<>> THEN <<>> ELSE Head(ss) \o Flatten(Tail(ss))

-----------------------------------------------------------------------------
(* SKELETON DEFINITION: the body_25b joint tree *)

rootName == "CHipJ"

Children ==
    [n \in {"CHipJ", "RHipJ", "RKneeJ", "RAnkleJ", "RBigToeJ", "RSmallToeJ", "RHeelJ",
            "LHipJ", "LKneeJ", "LAnkleJ", "LBigToeJ", "LSmallToeJ", "LHeelJ",
            "NeckJ", "HeadJ", "NoseJ", "RShoulderJ", "RElbowJ", "RWristJ",
            "LShoulderJ", "LElbowJ", "LWristJ"} |->
        CASE n = "CHipJ" -> <<"RHipJ", "LHipJ", "NeckJ">>
          [] n = "RHipJ" -> <<"RKneeJ">>
          [] n = "RKneeJ" -> <<"RAnkleJ">>
          [] n = "RAnkleJ" -> <<"RBigToeJ", "RHeelJ">>
          [] n = "RBigToeJ" -> <<"RSmallToeJ">>
          [] n = "LHipJ" -> <<"LKneeJ">>
          [] n = "LKneeJ" -> <<"LAnkleJ">>
          [] n = "LAnkleJ" -> <<"LBigToeJ", "LHeelJ">>
          [] n = "LBigToeJ" -> <<"LSmallToeJ">>
          [] n = "NeckJ" -> <<"HeadJ", "RShoulderJ", "LShoulderJ">>
          [] n = "HeadJ" -> <<"NoseJ">>
          [] n = "RShoulderJ" -> <<"RElbowJ">>
          [] n = "RElbowJ" -> <<"RWristJ">>
          [] n = "LShoulderJ" -> <<"LElbowJ">>
          [] n = "LElbowJ" -> <<"LWristJ">>
          [] OTHER -> <<>>]

\* node.parent.name
NodeParent(n) == CHOOSE p \in DOMAIN Children : n \in Range(Children[p])

\* the node names in the order RenderTree(root) yields them
RECURSIVE RenderTree(_)
RECURSIVE RenderAll(_)
RenderTree(n) == <<n>> \o RenderAll(Children[n])
RenderAll(ns) == IF ns = <<>> THEN <<>> ELSE RenderTree(Head(ns)) \o RenderAll(Tail(ns))

-----------------------------------------------------------------------------
(* pandas.read_csv, as df_from_trc uses it.  skiprows counts physical      *)
(* lines; empty lines that follow are skipped (skip_blank_lines); the       *)
(* header line names the columns, an empty header cell being named          *)
(* 'Unnamed: k'; with names= and index_col=False a data row is cut or       *)
(* padded to the number of names.  A blank line is a line of no cell.       *)

SkipRows(lines, n) == SubSeq(lines, n + 1, Len(lines))

NonBlank(lines) == SelectSeq(lines, LAMBDA l : Len(l) > 0)

FirstRows(lines, n) == SubSeq(lines, 1, IF Len(lines) < n THEN Len(lines) ELSE n)

NameColumns(line) ==
    [k \in 1..Len(line) |-> IF line[k] = "" THEN "Unnamed: " \o ToString(k - 1) ELSE line[k]]

FitRow(row, n) == [k \in 1..n |-> IF k <= Len(row) THEN row[k] ELSE "nan"]

\* lines 94-95: the two metadata rows, zipped into a dictionary
HeaderRows(file) == FirstRows(NonBlank(SkipRows(file, 1)), 2)

HeaderFails(file) ==
    LET rows == HeaderRows(file)
    IN  \/ Len(rows) < 2                      \* EmptyDataError / IndexError on iloc[1]
        \/ Len(rows[2]) > Len(rows[1])        \* ParserError: more fields than the first row

HeaderDict(file) ==
    LET rows == HeaderRows(file)
        vals == FitRow(rows[2], Len(rows[1]))
    IN  [k \in Range(rows[1]) |-> vals[IndexOf(rows[1], k)]]

\* lines 98-99: the columns of the label row and every third of them from the third
LabelColumns(file) ==
    LET rest == NonBlank(SkipRows(file, 3))
    IN  IF rest = <<>> THEN <<>> ELSE NameColumns(rest[1])

SliceLabels(columns) == SliceFrom(columns, 2, Len(columns) - 1, 3)

FileLabels(file) == SliceLabels(LabelColumns(file))

\* lines 100-101
LabelsXYZ(labs) == Flatten([k \in 1..Len(labs) |-> <<labs[k] \o "_X", labs[k] \o "_Y", labs[k] \o "_Z">>])

LabelsFTXYZ(labs) == <<"Frame#", "Time">> \o LabelsXYZ(labs)

\* ReadData with skiprows one short
ReadDataSkip4(file, names) ==
    LET rest == NonBlank(SkipRows(file, 4))
    IN  [columns |-> names, rows |-> [r \in 1..Len(rest) |-> FitRow(rest[r], Len(names))]]

\* line 103: the data rows under the given names
ReadData(file, names) ==
    LET rest == NonBlank(SkipRows(file, 5))
    IN  [columns |-> names, rows |-> [r \in 1..Len(rest) |-> FitRow(rest[r], Len(names))]]

\* line 104: data_df.iloc[:, 2:]
DropFrameTime(df) ==
    [columns |-> SubSeq(df.columns, 3, Len(df.columns)),
     rows |-> [r \in 1..Len(df.rows) |-> SubSeq(df.rows[r], 3, Len(df.columns))]]

\* df_from_trc fails when pandas raises: no label row, or no metadata rows
ParseFails(file) == HeaderFails(file) \/ NonBlank(SkipRows(file, 3)) = <<>>

ParsedData(file) == DropFrameTime(ReadData(file, LabelsFTXYZ(FileLabels(file))))

\* data.iloc[r, c] and data.loc[r, name], r and c 0-based
Iloc(df, r, c) == df.rows[r + 1][c + 1]

HasColumn(df, name) == name \in Range(df.columns)

Loc(df, r, name) == df.rows[r + 1][IndexOf(df.columns, name)]

\* a value handed to the host, in halves
Num(cell) == 2 * ParseNum(cell)

-----------------------------------------------------------------------------
(* analyze_data and increment_labels *)

\* line 131: the label of every third column from the third, '_Z' taken off
RawLabels(df) ==
    LET zs == SliceFrom(df.columns, 2, Len(df.columns), 3)
    IN  [k \in 1..Len(zs) |-> DropLast(zs[k], 2)]

\* lines 114-118: one pass over the labels, the counter stepping on a collision
RECURSIVE ScanLabels(_, _, _)
ScanLabels(labs, objs, cnt) ==
    IF labs = <<>> THEN cnt
    ELSE IF (Head(labs) \o ToString(cnt)) \in objs \/ (Head(labs) \o "J" \o ToString(cnt)) \in objs
         THEN ScanLabels(Tail(labs), objs, cnt + 1)
         ELSE ScanLabels(Tail(labs), objs, cnt)

increment_labels(labs, objs) ==
    LET cnt == ToString(ScanLabels(labs, objs, 1))
    IN  [str_cnt |-> cnt, labels |-> [k \in 1..Len(labs) |-> labs[k] \o cnt]]

-----------------------------------------------------------------------------
(* The host: the Maya scene *)

\* cmds.ls(type='transform')
Transforms(sc) == {sc[k].name : k \in 1..Len(sc)}

\* a node created under a parent ("" is the world); the name asked for is the name given
Create(sc, name, parent) ==
    IF name \in Transforms(sc) THEN sc ELSE Append(sc, [name |-> name, parent |-> parent])

\* cmds.parent(child, parent) and cmds.group(children, n=name)
Reparent(sc, names, parent) ==
    [k \in 1..Len(sc) |-> IF sc[k].name \in names THEN [sc[k] EXCEPT !.parent = parent] ELSE sc[k]]

\* cmds.listRelatives(name, parent=True)
ListParent(sc, name) == sc[CHOOSE k \in 1..Len(sc) : sc[k].name = name].parent

SceneChildren(sc, name) ==
    LET kids == SelectSeq(sc, LAMBDA e : e.parent = name)
    IN  [k \in 1..Len(kids) |-> kids[k].name]

\* cmds.select(name, hi=True); cmds.ls(sl=1): the node, then its descendants depth first
RECURSIVE Hierarchy(_, _)
RECURSIVE HierarchyAll(_, _)
Hierarchy(sc, name) == <<name>> \o HierarchyAll(sc, SceneChildren(sc, name))
HierarchyAll(sc, names) ==
    IF names = <<>> THEN <<>>
    ELSE Hierarchy(sc, Head(names)) \o HierarchyAll(sc, Tail(names))

-----------------------------------------------------------------------------
(* The files offered to the import *)

HeaderKeys == <<"DataRate", "CameraRate", "NumFrames", "NumMarkers", "Units",
                "OrigDataRate", "OrigDataStartFrame", "OrigNumFrames">>

\* the marker labels of the topology: joint names less the letter J, root first
BodyLabels == [k \in 1..Len(RenderTree(rootName)) |-> DropLast(RenderTree(rootName)[k], 1)]

Reverse(s) == [k \in 1..Len(s) |-> s[Len(s) + 1 - k]]

\* sample of marker m (1-based), frame f (0-based), axis a (0..2): all distinct in a file
Sample(seed, n, m, f, a) == seed + a + 3 * (m - 1) + 3 * n * f

LabelRow(labs) == <<"Frame#", "Time">> \o Flatten([k \in 1..Len(labs) |-> <<labs[k], "", "">>])

UnitsRow(n) ==
    <<"", "">> \o Flatten([k \in 1..n |-> <<"X" \o ToString(k), "Y" \o ToString(k), "Z" \o ToString(k)>>])

DataRow(seed, n, f) ==
    <<ToString(f + 1), ToString(f)>>
    \o Flatten([m \in 1..n |-> <<ToString(Sample(seed, n, m, f, 0)),
                                ToString(Sample(seed, n, m, f, 1)),
                                ToString(Sample(seed, n, m, f, 2))>>])

\* the metadata rows, the key named by omit (and its value) left out
MetaRows(omit, numMarkers, frames) ==
    LET vals == <<"60", "60", ToString(frames), ToString(numMarkers), "m", "60", "1",
                  ToString(frames)>>
        kept == SelectSeq([k \in 1..Len(HeaderKeys) |-> k], LAMBDA k : HeaderKeys[k] # omit)
    IN  << [k \in 1..Len(kept) |-> HeaderKeys[kept[k]]], [k \in 1..Len(kept) |-> vals[kept[k]]] >>

\* layout "trc": labels on line 4, units on line 5, data from line 6;
\* "trcBlank": the same with an empty line 6; "spec": empty line 4, labels on line 5,
\* units on line 6, data from line 7.  numMarkers is what the metadata row says.
MakeFile(layout, omit, numMarkers, labs, frames, seed) ==
    LET n == Len(labs)
        top == << <<"PathFileType", "4", "(X/Y/Z)", "capture.trc">> >>
               \o MetaRows(omit, numMarkers, frames)
        rows == [f \in 1..frames |-> DataRow(seed, n, f - 1)]
    IN  CASE layout = "trc" -> top \o <<LabelRow(labs), UnitsRow(n)>> \o rows
          [] layout = "trcBlank" -> top \o <<LabelRow(labs), UnitsRow(n), <<>> >> \o rows
          [] layout = "spec" -> top \o << <<>>, LabelRow(labs), UnitsRow(n)>> \o rows

\* the transforms of a new scene
NewScene == [k \in 1..4 |-> [name |-> <<"persp", "top", "front", "side">>[k], parent |-> ""]]

-----------------------------------------------------------------------------
(* The state when the button is pressed *)

NoKeys == [k \in {} |-> 0]

NoData == [columns |-> <<>>, rows |-> <<>>]

Locals0 ==
    /\ header = NoKeys
    /\ data = NoData
    /\ labels = <<>>
    /\ str_cnt = ""
    /\ numFrames = 0
    /\ jointsJ = <<>>
    /\ i = 0
    /\ j = 0

InitWith(files, markerChoices, skeletonChoices, scenes) ==
    /\ trc_file \in files
    /\ markers_box \in markerChoices
    /\ skeleton_box \in skeletonChoices
    /\ scene \in scenes
    /\ pos = NoKeys
    /\ anim = NoKeys
    /\ calls = <<>>
    /\ pc = "start"
    /\ importNo = 1
    /\ Locals0

-----------------------------------------------------------------------------
(* trc_callback, lines 209-211 *)

\* line 209: _, data = df_from_trc(trc_path)
df_from_trc ==
    /\ pc = "start"
    /\ IF ParseFails(trc_file)
       THEN /\ pc' = "error"
            /\ UNCHANGED <<header, data>>
       ELSE /\ pc' = "parsed"
            /\ header' = HeaderDict(trc_file)
            /\ data' = ParsedData(trc_file)
    /\ UNCHANGED <<trc_file, markers_box, skeleton_box, scene, pos, anim, calls, labels,
                   str_cnt, numFrames, jointsJ, i, j, importNo>>

\* line 210: labels, str_cnt, numFrames = analyze_data(data)
analyze_data ==
    /\ pc = "parsed"
    /\ LET r == increment_labels(RawLabels(data), Transforms(scene))
       IN  /\ labels' = r.labels
           /\ str_cnt' = r.str_cnt
    /\ numFrames' = Len(data.rows)
    /\ pc' = "analyzed"
    /\ UNCHANGED <<trc_file, markers_box, skeleton_box, scene, pos, anim, calls, header,
                   data, jointsJ, i, j, importNo>>

\* line 211: cmds.group(empty=True, name='TRC'+str_cnt)
create_group ==
    /\ pc = "analyzed"
    /\ scene' = Create(scene, "TRC" \o str_cnt, "")
    /\ calls' = Append(calls, <<"group", "TRC" \o str_cnt, "", -1>>)
    /\ pc' = "grouped"
    /\ UNCHANGED <<trc_file, markers_box, skeleton_box, pos, anim, header, data, labels,
                   str_cnt, numFrames, jointsJ, i, j, importNo>>

-----------------------------------------------------------------------------
(* set_markers and lines 213-217 of trc_callback *)

Attrs == <<"translateX", "translateY", "translateZ">>

\* lines 151-153: the column of marker j (0-based) keyed on attribute a (1..3)
MarkerColumn(jj, a) == CASE a = 1 -> 3 * jj + 2 [] a = 2 -> 3 * jj [] a = 3 -> 3 * jj + 1

\* lines 149-153 in call order: <<object, attribute, time, cell>>; the n-th call keys
\* attribute n mod 3 of marker (n div 3) mod len(labels) at frame n div (3 len(labels))
MarkerKeys(df, labs, nf) ==
    [n \in 1..(3 * Len(labs) * nf) |->
        LET f == (n - 1) \div (3 * Len(labs))
            m == ((n - 1) % (3 * Len(labs))) \div 3
            a == ((n - 1) % 3) + 1
        IN  <<labs[m + 1], Attrs[a], f, Iloc(df, f, MarkerColumn(m, a))>>]

\* the number of calls made before the first cell that is no number (setKeyframe refuses it)
NumericPrefix(keys) ==
    LET bad == {k \in 1..Len(keys) : ~IsNum(keys[k][4])}
    IN  IF bad = {} THEN Len(keys) ELSE (CHOOSE k \in bad : \A m \in bad : k <= m) - 1

\* cmds.setKeyframe(object, t=, at=, v=) for each key of the list, in order: the last
\* value set on a curve at a time is the one it keeps
KeyId(e) == <<e[1], e[2], e[3]>>

LastKey(keys, id) ==
    LET at == {k \in 1..Len(keys) : KeyId(keys[k]) = id}
    IN  keys[CHOOSE k \in at : \A m \in at : m <= k][4]

ApplyKeys(an, keys) ==
    [id \in DOMAIN an \cup {KeyId(keys[k]) : k \in 1..Len(keys)} |->
        IF \E k \in 1..Len(keys) : KeyId(keys[k]) = id THEN LastKey(keys, id) ELSE an[id]]

\* lines 143-147: a sphere for the first label, an instance of it for the others
RECURSIVE CreateAll(_, _, _)
CreateAll(sc, names, parent) ==
    IF names = <<>> THEN sc ELSE CreateAll(Create(sc, Head(names), parent), Tail(names), parent)

MarkerCreateCalls(labs) ==
    [m \in 1..Len(labs) |-> <<IF m = 1 THEN "polySphere" ELSE "instance", labs[m], "", -1>>]

\* the scene, the keys and the calls after the first n of the key calls
MarkersSet(sc, an, cs, labs, keys, n) ==
    [scene |-> CreateAll(sc, labs, ""),
     anim |-> ApplyKeys(an, [k \in 1..n |-> <<keys[k][1], keys[k][2], keys[k][3], Num(keys[k][4])>>]),
     calls |-> cs \o MarkerCreateCalls(labs)
                  \o [k \in 1..n |-> <<"setKeyframe", keys[k][1], keys[k][2], keys[k][3]>>],
     complete |-> n = Len(keys)]

\* lines 216-217: group the markers, parent the group to TRC
MarkersGrouped(sc, labs, cnt) ==
    Reparent(Create(Reparent(sc, Range(labs), "markers" \o cnt), "markers" \o cnt, ""),
             {"markers" \o cnt}, "TRC" \o cnt)

MarkersResult(sc, an, cs, labs, keys) == MarkersSet(sc, an, cs, labs, keys, NumericPrefix(keys))

SetMarkersTo(r) ==
    /\ anim' = r.anim
    /\ IF r.complete
       THEN /\ pc' = "markers_done"
            /\ scene' = MarkersGrouped(r.scene, labels, str_cnt)
            /\ calls' = r.calls \o << <<"group", "markers" \o str_cnt, "", -1>>,
                                      <<"parent", "markers" \o str_cnt, "", -1>> >>
       ELSE /\ pc' = "error"
            /\ scene' = r.scene
            /\ calls' = r.calls

set_markers ==
    /\ pc = "grouped"
    /\ markers_box
    /\ SetMarkersTo(MarkersResult(scene, anim, calls, labels, MarkerKeys(data, labels, numFrames)))
    /\ UNCHANGED <<trc_file, markers_box, skeleton_box, pos, header, data, labels, str_cnt,
                   numFrames, jointsJ, i, j, importNo>>

\* line 214: the box is not ticked
skip_markers ==
    /\ pc = "grouped"
    /\ ~markers_box
    /\ pc' = "markers_done"
    /\ UNCHANGED <<trc_file, markers_box, skeleton_box, scene, pos, anim, calls, header, data,
                   labels, str_cnt, numFrames, jointsJ, i, j, importNo>>

-----------------------------------------------------------------------------
(* set_skeleton and lines 219-223 of trc_callback *)

\* lines 170-175: the root joint, then every other node under its parent's joint
JointCreations(cnt) ==
    LET order == RenderTree(rootName)
    IN  [k \in 1..Len(order) |->
            [name |-> order[k] \o cnt,
             parent |-> IF order[k] # rootName THEN NodeParent(order[k]) \o cnt ELSE ""]]

RECURSIVE CreateJoints(_, _)
CreateJoints(sc, joints) ==
    IF joints = <<>> THEN sc
    ELSE CreateJoints(Create(sc, Head(joints).name, Head(joints).parent), Tail(joints))

\* line 180 and the end of a frame: the next frame, or the function returns
AfterFrame(f, nf) == IF f + 1 < nf THEN [pc |-> "place", i |-> f + 1, j |-> 0]
                                   ELSE [pc |-> "skeleton_done", i |-> f, j |-> 0]

create_joints ==
    /\ pc = "markers_done"
    /\ skeleton_box
    /\ LET joints == JointCreations(str_cnt)
           made == CreateJoints(scene, joints)
       IN  /\ scene' = made
           /\ calls' = calls \o [k \in 1..Len(joints) |-> <<"joint", joints[k].name, "", -1>>]
           \* lines 176-177
           /\ jointsJ' = Hierarchy(made, "CHipJ" \o str_cnt)
    /\ pc' = IF numFrames > 0 THEN "place" ELSE "skeleton_done"
    /\ i' = 0
    /\ j' = 0
    /\ UNCHANGED <<trc_file, markers_box, skeleton_box, pos, anim, header, data, labels,
                   str_cnt, numFrames, importNo>>

\* line 220: the box is not ticked
skip_skeleton ==
    /\ pc = "markers_done"
    /\ ~skeleton_box
    /\ pc' = "playback"
    /\ UNCHANGED <<trc_file, markers_box, skeleton_box, scene, pos, anim, calls, header, data,
                   labels, str_cnt, numFrames, jointsJ, i, j, importNo>>

\* line 182: the root is synthesised when 'CHip' is no column of data
RootSynthesised(df, jj) == jj = 0 /\ ~HasColumn(df, DropLast(rootName, 1))

\* lines 183-186 and 188-191: the columns read for joint jj, in the order read (Z, X, Y)
JointColumns(df, joints, jj) ==
    IF RootSynthesised(df, jj)
    THEN LET RHip == DropLast(Children[rootName][1], 1)
             LHip == DropLast(Children[rootName][2], 1)
         IN  << <<RHip \o "_Z", LHip \o "_Z">>, <<RHip \o "_X", LHip \o "_X">>,
                <<RHip \o "_Y", LHip \o "_Y">> >>
    ELSE LET jnt == DropLast(StripDigits(joints[jj + 1]), 1)
         IN  << <<jnt \o "_Z">>, <<jnt \o "_X">>, <<jnt \o "_Y">> >>

\* JointCoord with the second hip forgotten
JointCoordFirstOnly(cells) == Num(cells[1])

\* the coordinate computed from the cells of one axis, in halves
JointCoord(cells) == IF Len(cells) = 2 THEN ParseNum(cells[1]) + ParseNum(cells[2])
                                       ELSE Num(cells[1])

\* OrientDue without the test on the frame
OrientDueEveryFrame(f) == TRUE

\* line 194
OrientDue(f) == f = 0

\* lines 181-193, one joint of one frame
place_joint ==
    /\ pc = "place"
    /\ LET cols == JointColumns(data, jointsJ, j)
           joint == jointsJ[j + 1]
       IN  IF \E a \in 1..3 : \E c \in Range(cols[a]) :
                  ~HasColumn(data, c) \/ ~IsNum(Loc(data, i, c))
           THEN \* KeyError of data.loc, or a cell that is no number
                /\ pc' = "error"
                /\ UNCHANGED <<pos, anim, calls, i, j>>
           ELSE LET cells == [a \in 1..3 |-> [c \in 1..Len(cols[a]) |-> Loc(data, i, cols[a][c])]]
                    xyz == [a \in 1..3 |-> JointCoord(cells[a])]
                    next == IF j + 1 < Len(jointsJ) THEN [pc |-> "place", i |-> i, j |-> j + 1]
                            ELSE IF OrientDue(i) /\ Len(jointsJ) > 1
                                 THEN [pc |-> "orient", i |-> i, j |-> 1]
                                 ELSE AfterFrame(i, numFrames)
                IN  /\ pos' = [n \in DOMAIN pos \cup {joint} |-> IF n = joint THEN xyz ELSE pos[n]]
                    /\ anim' = ApplyKeys(anim, [a \in 1..3 |-> <<joint, Attrs[a], i, xyz[a]>>])
                    /\ calls' = calls \o << <<"move", joint, "", -1>>, <<"setKeyframe", joint, "", i>> >>
                    /\ pc' = next.pc
                    /\ i' = next.i
                    /\ j' = next.j
    /\ UNCHANGED <<trc_file, markers_box, skeleton_box, scene, header, data, labels, str_cnt,
                   numFrames, jointsJ, importNo>>

\* OrientTarget without the lookup of the parent
OrientTargetSelf(sc, joints, jj) == joints[jj + 1]

\* line 196: the joint the orientation is applied to
OrientTarget(sc, joints, jj) == ListParent(sc, joints[jj + 1])

\* lines 195-197, one joint of the orientation pass
orient_joint ==
    /\ pc = "orient"
    /\ LET joint == jointsJ[j + 1]
           next == IF j + 1 < Len(jointsJ) THEN [pc |-> "orient", i |-> i, j |-> j + 1]
                   ELSE AfterFrame(i, numFrames)
       IN  /\ calls' = calls \o << <<"orient", OrientTarget(scene, jointsJ, j), "", -1>>,
                                   <<"setKeyframe", joint, "", i>> >>
           /\ anim' = ApplyKeys(anim, [a \in 1..3 |-> <<joint, Attrs[a], i, pos[joint][a]>>])
           /\ pc' = next.pc
           /\ i' = next.i
           /\ j' = next.j
    /\ UNCHANGED <<trc_file, markers_box, skeleton_box, scene, pos, header, data, labels,
                   str_cnt, numFrames, jointsJ, importNo>>

\* line 223: cmds.parent('CHipJ'+str_cnt, 'TRC'+str_cnt)
parent_skeleton ==
    /\ pc = "skeleton_done"
    /\ scene' = Reparent(scene, {"CHipJ" \o str_cnt}, "TRC" \o str_cnt)
    /\ calls' = Append(calls, <<"parent", "CHipJ" \o str_cnt, "", -1>>)
    /\ pc' = "playback"
    /\ UNCHANGED <<trc_file, markers_box, skeleton_box, pos, anim, header, data, labels,
                   str_cnt, numFrames, jointsJ, i, j, importNo>>

\* lines 225-226
playback ==
    /\ pc = "playback"
    /\ calls' = Append(calls, <<"playbackOptions", "", "", numFrames>>)
    /\ pc' = "done"
    /\ UNCHANGED <<trc_file, markers_box, skeleton_box, scene, pos, anim, header, data,
                   labels, str_cnt, numFrames, jointsJ, i, j, importNo>>

\* line 234: the button is pressed again once the callback has returned; its locals are gone
press_again ==
    /\ pc = "done"
    /\ importNo < MaxImports
    /\ importNo' = importNo + 1
    /\ pc' = "start"
    /\ header' = NoKeys
    /\ data' = NoData
    /\ labels' = <<>>
    /\ str_cnt' = ""
    /\ numFrames' = 0
    /\ jointsJ' = <<>>
    /\ i' = 0
    /\ j' = 0
    /\ UNCHANGED <<trc_file, markers_box, skeleton_box, scene, pos, anim, calls>>

-----------------------------------------------------------------------------
(* Specifications *)

Hips3 == <<"CHip", "RHip", "LHip">>

\* a scene that already holds the import of a file of the one marker 'Nose'
NoseScene ==
    NewScene \o << [name |-> "TRC1", parent |-> ""], [name |-> "markers1", parent |-> "TRC1"],
                   [name |-> "Nose1", parent |-> "markers1"] >>

\* well-formed files of the TRC layout, with and without the markers the skeleton needs
BodyFiles ==
    {MakeFile(layout, "", Len(labs), labs, frames, seed) :
        layout \in {"trc", "trcBlank"},
        labs \in {BodyLabels, Tail(BodyLabels), Reverse(Tail(BodyLabels)),
                  DropLast(BodyLabels, 1), Hips3, <<"Nose">>},
        frames \in 0..MaxFrames,
        seed \in 0..MaxSeed}

Init == InitWith(BodyFiles, BOOLEAN, BOOLEAN, {NewScene, NoseScene})

Next ==
    \/ df_from_trc
    \/ analyze_data
    \/ create_group
    \/ set_markers
    \/ skip_markers
    \/ create_joints
    \/ skip_skeleton
    \/ place_joint
    \/ orient_joint
    \/ parent_skeleton
    \/ playback

Spec == Init /\ [][Next]_vars

\* files of either layout, whose metadata rows may disagree with the label row or lack a
\* key, and a file cut after its first line; imported with both boxes unticked
ParseFiles ==
    {MakeFile(layout, omit, Len(labs) + extra, labs, frames, seed) :
        layout \in {"trc", "trcBlank", "spec"},
        omit \in {"", "NumMarkers"},
        extra \in {0, 1},
        labs \in {Hips3, <<"RHip", "LHip">>, <<"Nose">>},
        frames \in 0..MaxFrames,
        seed \in 0..MaxSeed}
    \cup {<< <<"PathFileType", "4", "(X/Y/Z)", "capture.trc">> >>}

InitParse == InitWith(ParseFiles, {FALSE}, {FALSE}, {NewScene, NoseScene})

NextParse ==
    \/ df_from_trc
    \/ analyze_data
    \/ create_group
    \/ skip_markers
    \/ skip_skeleton
    \/ playback

SpecParse == InitParse /\ [][NextParse]_vars

\* the same file imported several times with the markers box ticked
LabelFiles ==
    {MakeFile("trc", "", Len(labs), labs, frames, seed) :
        labs \in {Hips3, <<"RHip", "LHip">>, <<"Nose">>},
        frames \in 0..MaxFrames,
        seed \in 0..MaxSeed}

With(names) == NewScene \o [k \in 1..Len(names) |-> [name |-> names[k], parent |-> ""]]

InitLabels ==
    InitWith(LabelFiles, {TRUE}, {FALSE},
             {NewScene, NoseScene, With(<<"Nose1", "NoseJ1">>), With(<<"Nose1", "Nose2">>),
              With(<<"RHipJ1", "LHip2">>), With(<<"CHip1", "RHip2", "LHip3">>)})

NextLabels ==
    \/ df_from_trc
    \/ analyze_data
    \/ create_group
    \/ set_markers
    \/ skip_skeleton
    \/ playback
    \/ press_again

SpecLabels == InitLabels /\ [][NextLabels]_vars

\* the same, from a scene that holds no earlier import
InitRepeat == InitWith(LabelFiles, {TRUE}, {FALSE}, {NewScene})

SpecRepeat == InitRepeat /\ [][NextLabels]_vars

-----------------------------------------------------------------------------
(* Properties *)

\* the callback has returned from analyze_data and not yet from trc_callback
Analyzed == pc \notin {"start", "parsed", "error"}

\* C1: the counter returned by increment_labels collides with no existing name: once
\* analyze_data has returned and before any object is created, no label + counter and no
\* label + 'J' + counter is a transform of the scene, and every adjusted label is its raw
\* label followed by that counter.
C1_CounterCollisionFree ==
    pc = "analyzed" =>
        /\ \A l \in Range(RawLabels(data)) :
              /\ (l \o str_cnt) \notin Transforms(scene)
              /\ (l \o "J" \o str_cnt) \notin Transforms(scene)
        /\ labels = [k \in 1..Len(RawLabels(data)) |-> RawLabels(data)[k] \o str_cnt]

\* C2: importing the same labels k times in a row into a scene that held no earlier
\* import yields the counters 1, 2, ..., k in that order: the counter of the n-th import is n.
C2_FreshCounters == Analyzed => str_cnt = ToString(importNo)

\* the marker l has its three columns in the table
HasMarker(df, l) == HasColumn(df, l \o "_X") /\ HasColumn(df, l \o "_Y") /\ HasColumn(df, l \o "_Z")

\* the sample (a, b, c) of marker l at frame t, remapped to (c, a, b), in halves
Remapped(df, l, t) ==
    <<Num(Loc(df, t, l \o "_Z")), Num(Loc(df, t, l \o "_X")), Num(Loc(df, t, l \o "_Y"))>>

\* the midpoint of the remapped samples of two markers at frame t, in halves
Midpoint(df, l1, l2, t) ==
    <<ParseNum(Loc(df, t, l1 \o "_Z")) + ParseNum(Loc(df, t, l2 \o "_Z")),
      ParseNum(Loc(df, t, l1 \o "_X")) + ParseNum(Loc(df, t, l2 \o "_X")),
      ParseNum(Loc(df, t, l1 \o "_Y")) + ParseNum(Loc(df, t, l2 \o "_Y"))>>

Keyed(obj, t) == \A a \in 1..3 : <<obj, Attrs[a], t>> \in DOMAIN anim

KeyedAt(obj, t) == [a \in 1..3 |-> anim[<<obj, Attrs[a], t>>]]

RootLabel == DropLast(rootName, 1)

RootJoint == rootName \o str_cnt

SkeletonStarted == jointsJ # <<>>

\* the loop of set_skeleton has placed the root for frame t
RootPlaced(t) ==
    /\ SkeletonStarted
    /\ t \in 0..(numFrames - 1)
    /\ \/ t < i
       \/ t = i /\ (j > 0 \/ pc \in {"skeleton_done", "playback", "done"})

\* C3: when the table holds the marker of the root (columns CHip_X, CHip_Y, CHip_Z), the
\* root joint is placed, at every frame, at that marker's own remapped sample of the frame.
C3_RootDirectLookup ==
    HasMarker(data, RootLabel) =>
        \A t \in 0..(numFrames - 1) :
            RootPlaced(t) => Keyed(RootJoint, t) /\ KeyedAt(RootJoint, t) = Remapped(data, RootLabel, t)

\* C6: when the table has no marker of the root but has RHip and LHip, the position applied
\* to the root joint at every frame i is the componentwise average of the remapped RHip and
\* LHip samples of frame i: X = (RHip_Z+LHip_Z)/2, Y = (RHip_X+LHip_X)/2, Z = (RHip_Y+LHip_Y)/2.
C6_RootSynthesis ==
    (~HasMarker(data, RootLabel) /\ HasMarker(data, "RHip") /\ HasMarker(data, "LHip")) =>
        /\ \A t \in 0..(numFrames - 1) :
              RootPlaced(t) =>
                  /\ Keyed(RootJoint, t)
                  /\ KeyedAt(RootJoint, t) = Midpoint(data, "RHip", "LHip", t)
        /\ \A t \in 0..(numFrames - 1) : Keyed(RootJoint, t) => RootPlaced(t)
        /\ (SkeletonStarted /\ RootJoint \in DOMAIN pos) =>
               \E t \in 0..i : RootPlaced(t) /\ pos[RootJoint] = Midpoint(data, "RHip", "LHip", t)

C6_Witness ==
    /\ pc = "done"
    /\ skeleton_box
    /\ ~HasMarker(data, RootLabel)
    /\ numFrames >= 2
    /\ RootPlaced(1)
    /\ KeyedAt(RootJoint, 1) # KeyedAt(RootJoint, 0)

\* set_markers has returned
MarkersPlaced ==
    markers_box /\ pc \in {"markers_done", "place", "orient", "skeleton_done", "playback", "done"}

\* C8: the axes are remapped (a,b,c) -> (c,a,b): set_markers keys the object of every marker
\* at every frame with translateX=c, translateY=a, translateZ=b of that marker's sample,
\* and set_skeleton moves every joint whose marker (joint name less 'J' and counter) is in
\* the table to (c,a,b) of its own marker's sample of the frame.
C8_AxisRemap ==
    /\ MarkersPlaced =>
          \A m \in 1..Len(labels) : \A t \in 0..(numFrames - 1) :
              /\ Keyed(labels[m], t)
              /\ KeyedAt(labels[m], t) = Remapped(data, RawLabels(data)[m], t)
    /\ \A k \in 1..Len(jointsJ) : \A t \in 0..(numFrames - 1) :
          LET l == DropLast(RenderTree(rootName)[k], 1)
          IN  (HasMarker(data, l) /\ Keyed(jointsJ[k], t)) =>
                  KeyedAt(jointsJ[k], t) = Remapped(data, l, t)

\* the positions in calls of the orientation calls
OrientAt == {k \in 1..Len(calls) : calls[k][1] = "orient"}

\* the joints the orientation calls were applied to, in call order
Targets == LET os == SelectSeq(calls, LAMBDA e : e[1] = "orient")
           IN  [k \in 1..Len(os) |-> os[k][2]]

Topology == RenderTree(rootName)

\* set_skeleton has returned
SkeletonReturned == skeleton_box /\ pc \in {"skeleton_done", "playback", "done"}

\* C4 as stated: every non-root joint is the target of exactly one orientation call, in
\* pre-order, and the root of none: the k-th orientation call is applied to the k-th
\* non-root joint, and a completed pass has made one call per non-root joint.
C4_OrientTargetsNonRoot ==
    /\ \A k \in 1..Len(Targets) : k < Len(Topology) /\ Targets[k] = Topology[k + 1] \o str_cnt
    /\ (SkeletonReturned /\ numFrames > 0) => Len(Targets) = Len(Topology) - 1

\* C4 as amended: the k-th orientation call is applied to the parent of the k-th non-root
\* joint of the pre-order and is followed by a keyframe of that non-root joint at frame 0;
\* a completed pass has made one call per non-root joint.
C4_OrientTargetsParents ==
    /\ Len(Targets) < Len(Topology)
    /\ \A k \in 1..Len(Targets) : Targets[k] = NodeParent(Topology[k + 1]) \o str_cnt
    /\ \A k \in OrientAt :
          /\ k < Len(calls)
          /\ calls[k + 1] = <<"setKeyframe", Topology[Cardinality({m \in OrientAt : m <= k}) + 1] \o str_cnt, "", 0>>
    /\ (SkeletonReturned /\ numFrames > 0) => Len(Targets) = Len(Topology) - 1

C4_Witness ==
    /\ pc = "done"
    /\ skeleton_box
    /\ Len(Targets) = Len(Topology) - 1
    /\ Cardinality(Range(Targets)) < Len(Targets)
    /\ RootJoint \in Range(Targets)

\* the positions in calls of the calls of one command, in increasing order
CallsOf(cmd) == SelectSeq([k \in 1..Len(calls) |-> k], LAMBDA k : calls[k][1] = cmd)

\* the orientation calls (at positions os) alternate with keyframes of frame 0 and start
\* right after the moves and frame 0 keyframes of all the joints, first to last
PassAfterFrame0(os) ==
    os # <<>> =>
        /\ \A c \in 1..Len(os) : os[c] = os[1] + 2 * (c - 1) /\ calls[os[c] + 1][4] = 0
        /\ \A n \in 1..Len(jointsJ) :
              /\ calls[os[1] - 2 * (Len(jointsJ) - n) - 2] = <<"move", jointsJ[n], "", -1>>
              /\ calls[os[1] - 2 * (Len(jointsJ) - n) - 1] = <<"setKeyframe", jointsJ[n], "", 0>>

\* the placements (at positions ms) go frame by frame from frame 0, every joint in each, and
\* those of the frames after frame 0 come after the orientation calls (at positions os)
FramesInOrder(ms, os) ==
    \A n \in 1..Len(ms) :
        /\ calls[ms[n]][2] = jointsJ[((n - 1) % Len(jointsJ)) + 1]
        /\ calls[ms[n] + 1] = <<"setKeyframe", calls[ms[n]][2], "", (n - 1) \div Len(jointsJ)>>
        /\ (n > Len(jointsJ) /\ os # <<>>) => ms[n] > os[Len(os)]

\* C5: the orientation pass runs once, during frame 0 only: every orientation call comes
\* after each joint was moved and keyed for frame 0 and before any placement of a later
\* frame; the placements come frame by frame in increasing order, every joint in each;
\* an import that completes with at least one frame has made exactly one pass.
C5_OrientationOrdering ==
    /\ PassAfterFrame0(CallsOf("orient"))
    /\ FramesInOrder(CallsOf("move"), CallsOf("orient"))
    /\ Len(CallsOf("orient")) <= Len(Topology) - 1
    /\ (SkeletonReturned /\ numFrames > 0) =>
          /\ Len(CallsOf("orient")) = Len(Topology) - 1
          /\ Len(CallsOf("move")) = numFrames * Len(Topology)
    /\ pc = "orient" => i = 0

C5_Witness ==
    /\ pc = "done"
    /\ skeleton_box
    /\ numFrames >= 2
    /\ Len(CallsOf("orient")) = Len(Topology) - 1
    /\ Len(CallsOf("move")) = numFrames * Len(Topology)

\* the marker that joint k of the pre-order needs is not in the table: the own marker of
\* a joint other than the root; for the root, its own marker and, failing that, both hips
MarkerAbsent(df, k) ==
    IF k = 1
    THEN ~HasMarker(df, RootLabel) /\ ~(HasMarker(df, "RHip") /\ HasMarker(df, "LHip"))
    ELSE ~HasMarker(df, DropLast(Topology[k], 1))

SomeMarkerAbsent(df) == \E k \in 1..Len(Topology) : MarkerAbsent(df, k)

\* the keys of the marker objects
MarkerAnim == [id \in {d \in DOMAIN anim : d[1] \in Range(labels)} |-> anim[id]]

\* the keys set_markers sets when it is the only box ticked
MarkersAlone(df, labs, nf) ==
    LET keys == MarkerKeys(df, labs, nf)
    IN  ApplyKeys(NoKeys, [k \in 1..Len(keys) |-> <<keys[k][1], keys[k][2], keys[k][3], Num(keys[k][4])>>])

\* C7: when the marker some joint needs is absent from the table, set_skeleton raises and
\* does not complete; no position is applied to a joint whose marker is absent; and the
\* marker objects and their keys are those an import without the skeleton produces.
C7_MissingMarkerFails ==
    (skeleton_box /\ Analyzed /\ SomeMarkerAbsent(data)) =>
        /\ pc \notin {"skeleton_done", "playback", "done"}
        /\ \A k \in 1..Len(jointsJ) :
              MarkerAbsent(data, k) =>
                  jointsJ[k] \notin DOMAIN pos /\ \A t \in 0..(numFrames - 1) : ~Keyed(jointsJ[k], t)
        /\ (markers_box /\ SkeletonStarted) =>
              /\ MarkerAnim = MarkersAlone(data, labels, numFrames)
              /\ Range(labels) \subseteq Transforms(scene)

\* the shapes of the lines of a file
RowLabels(row) == [k \in 1..((Len(row) - 2) \div 3) |-> row[3 * k]]

IsLabelRow(row) ==
    /\ Len(row) >= 5
    /\ (Len(row) - 2) % 3 = 0
    /\ row[1] = "Frame#"
    /\ row[2] = "Time"
    /\ \A k \in 1..((Len(row) - 2) \div 3) :
          row[3 * k] # "" /\ row[3 * k + 1] = "" /\ row[3 * k + 2] = ""
    /\ \A k, m \in 1..((Len(row) - 2) \div 3) : k # m => row[3 * k] # row[3 * m]

IsUnitsRow(row) == Len(row) >= 2 /\ row[1] = "" /\ row[2] = ""

IsDataRow(row, n) == Len(row) = 2 + 3 * n /\ \A k \in 1..Len(row) : IsNum(row[k])

\* the layout the specification fixes: line 4 blank, line 5 the label row, line 6 the
\* units sub-header, data rows from line 7
SpecLayout(file) ==
    /\ Len(file) >= 6
    /\ file[4] = <<>>
    /\ IsLabelRow(file[5])
    /\ IsUnitsRow(file[6])
    /\ \A r \in 7..Len(file) : IsDataRow(file[r], Len(RowLabels(file[5])))

\* the layout of a TRC file: line 4 the label row, line 5 the units sub-header, then the
\* data rows, empty lines allowed among them
TrcLayout(file) ==
    /\ Len(file) >= 5
    /\ IsLabelRow(file[4])
    /\ IsUnitsRow(file[5])
    /\ \A r \in 6..Len(file) : file[r] = <<>> \/ IsDataRow(file[r], Len(RowLabels(file[4])))

\* the table and the labels are those of the markers labs and of the data rows rows
ParsedShape(labs, rows) ==
    /\ numFrames = Len(rows)
    /\ Len(data.rows) = Len(rows)
    /\ labels = [k \in 1..Len(labs) |-> labs[k] \o str_cnt]
    /\ Len(data.columns) = 3 * Len(labs)
    /\ \A k \in 1..Len(labs) :
          /\ data.columns[3 * k - 2] = labs[k] \o "_X"
          /\ data.columns[3 * k - 1] = labs[k] \o "_Y"
          /\ data.columns[3 * k] = labs[k] \o "_Z"
    /\ \A r \in 1..Len(rows) : data.rows[r] = SubSeq(rows[r], 3, Len(rows[r]))

HasKey(file, key) == key \in Range(file[2])

MetaValue(file, key) == file[3][IndexOf(file[2], key)]

\* the file is malformed: a metadata key is missing, or the label row or a data row has
\* not 2 + 3 * NumMarkers columns
Malformed(file) ==
    \/ Len(file) < 3
    \/ \E k \in 1..Len(HeaderKeys) : ~HasKey(file, HeaderKeys[k])
    \/ \E r \in 4..Len(file) :
          file[r] # <<>> /\ Len(file[r]) # 2 + 3 * ParseNum(MetaValue(file, "NumMarkers"))

\* C10: a malformed file is rejected by the parse and the import goes no further: no label
\* is resolved, no object is created and no key is set for it.
C10_FormatErrorsRejected ==
    Malformed(trc_file) =>
        /\ pc \in {"start", "error"}
        /\ labels = <<>>
        /\ calls = <<>>

====
